---------------------------- MODULE Spec2Model ----------------------------
(***************************************************************************)
(* A model of src/dashboard.py: one Streamlit script that builds a query   *)
(* from the sidebar, fetches a sales table, filters it by seller, rolls it *)
(* up by month, state, category and seller, and renders metrics.           *)
(*                                                                         *)
(* Text is a sequence of one-character strings, so that formatting and     *)
(* lower-casing are computed and not assumed.                              *)
(***************************************************************************)
EXTENDS Integers, Sequences, FiniteSets, TLC

VARIABLES
    \* a call of format_number on its own
    fpc,        \* "input" before the call, "formatted" after it
    value,      \* argument `value`
    prefix,     \* argument `prefix`
    out,        \* the text returned
    \* the script, one run of it per user interaction
    pc,         \* the statement the run is at
    passes,     \* runs of the script started so far
    remote,     \* the rows the endpoint holds (its JSON array of objects)
    selected,   \* value of the "Regions" selectbox
    every_year, \* value of the "Data for the entire period" checkbox
    slider,     \* value of the "Ano" slider (0 while it is not drawn)
    query_string,   \* the params handed to fetch_data
    invocations,    \* calls of fetch_data so far
    requests_made,  \* calls of requests.get so far
    response,       \* what the last requests.get met
    reported,       \* st.error calls of this run
    raised,         \* the exception that ended this run, or "none"
    datas,          \* the DataFrame `datas`: [cols, rows]
    fetched,        \* `datas` as it was before the seller filter
    seller_filter,  \* value of the "Sellers" multiselect
    monthly_income, income_by_category, income_of_the_states,
    vendas_estados, vendas_mensal, vendas_categorias, vendedores,
    qtd_vendedores,         \* value of the "Number of sellers" input
    receita_vendedores,     \* rows drawn by fig_receita_vendedores
    vendas_vendedores,      \* rows drawn by fig_vendas_vendedores
    metric_income, metric_sales     \* the two st.metric texts

fvars == <<fpc, value, prefix, out>>
svars == <<selected, every_year, slider, query_string>>
qvars == <<invocations, requests_made, response, reported>>
avars == <<monthly_income, income_by_category, income_of_the_states,
           vendas_estados, vendas_mensal, vendas_categorias, vendedores>>
rvars == <<qtd_vendedores, receita_vendedores, vendas_vendedores,
           metric_income, metric_sales>>
vars == <<fvars, pc, passes, remote, svars, qvars, raised, datas, fetched,
          seller_filter, avars, rvars>>

(***************************************************************************)
(* Text helpers                                                            *)
(***************************************************************************)
DigitChars == <<"0", "1", "2", "3", "4", "5", "6", "7", "8", "9">>

\* decimal digits of a natural number, most significant first
RECURSIVE Digits(_)
Digits(n) == IF n < 10 THEN <<DigitChars[n + 1]>>
             ELSE Digits(n \div 10) \o <<DigitChars[(n % 10) + 1]>>

\* the two candidates of Python's "{x:.2f}" for x = num/den >= 0, in hundredths:
\* the nearest hundredth; when num/den lies exactly halfway between two
\* hundredths the binary64 quotient decides, which `tie` stands for
Hundredths(num, den, tie) ==
    LET whole == (num \div den) * 100
        frac  == ((num % den) * 100) \div den
        rest  == ((num % den) * 100) % den
        low   == whole + frac
    IN  IF 2 * rest > den THEN low + 1
        ELSE IF 2 * rest < den THEN low
        ELSE IF tie = "up" THEN low + 1 ELSE low

\* "{x:.2f}" of x = h/100
Fmt2f(h) ==
    Digits(h \div 100) \o <<".">> \o
    <<DigitChars[((h % 100) \div 10) + 1], DigitChars[(h % 10) + 1]>>

(***************************************************************************)
(* format_number (src/dashboard.py:39-58)                                  *)
(***************************************************************************)
Mil == <<"m", "i", "l">>
Million == <<"m", "i", "l", "l", "i", "o", "n">>

\* UNITS with a fault: the loop divides once only
UNITS_short == <<<<>>>>

\* the list the loop of format_number runs over: ["", "mil"]
UNITS == <<<<>>, Mil>>

\* the loop of format_number: value is num/den, units is what is left of UNITS
RECURSIVE FormatLoop(_, _, _, _, _)
FormatLoop(num, den, units, pre, tie) ==
    IF units = <<>>
    THEN pre \o <<" ">> \o Fmt2f(Hundredths(num, den, tie)) \o <<" ">> \o Million
    ELSE IF num < 1000 * den
         THEN pre \o <<" ">> \o Fmt2f(Hundredths(num, den, tie))
                  \o <<" ">> \o Head(units)
         ELSE FormatLoop(num, den * 1000, Tail(units), pre, tie)

format_number(v, pre, tie) == FormatLoop(v, 1, UNITS, pre, tie)


(***************************************************************************)
(* Sidebar and query (src/dashboard.py:16, 61-74)                          *)
(***************************************************************************)
Brasil == <<"B", "r", "a", "s", "i", "l">>
CentroOeste == <<"C", "e", "n", "t", "r", "o", "-", "O", "e", "s", "t", "e">>
Nordeste == <<"N", "o", "r", "d", "e", "s", "t", "e">>
Norte == <<"N", "o", "r", "t", "e">>
Sudeste == <<"S", "u", "d", "e", "s", "t", "e">>
Sul == <<"S", "u", "l">>

REGIONS == <<Brasil, CentroOeste, Nordeste, Norte, Sudeste, Sul>>

UpperChars == <<"A", "B", "C", "D", "E", "F", "G", "H", "I", "J", "K", "L", "M",
                "N", "O", "P", "Q", "R", "S", "T", "U", "V", "W", "X", "Y", "Z">>
LowerChars == <<"a", "b", "c", "d", "e", "f", "g", "h", "i", "j", "k", "l", "m",
                "n", "o", "p", "q", "r", "s", "t", "u", "v", "w", "x", "y", "z">>

\* str.lower() of one character
LowerChar(c) ==
    IF \E i \in 1..26 : UpperChars[i] = c
    THEN LowerChars[CHOOSE i \in 1..26 : UpperChars[i] = c]
    ELSE c

\* Lower with a fault: the text is passed on as selected
Lower_asis(text) == text

\* str.lower()
Lower(text) == [i \in 1..Len(text) |-> LowerChar(text[i])]

SliderMin == 2020
SliderMax == 2023

\* lines 64-65: "Brasil" stands for every region
RegionOf(sel) == IF sel = Brasil THEN <<>> ELSE sel

\* lines 69-72: the slider is drawn, and read, only when the box is unchecked
YearOf(every, sl) == IF every THEN 0 ELSE sl

\* line 74
QueryString(region, every, year) ==
    [regiao |-> Lower(region), ano |-> IF ~every THEN year ELSE 0]

(***************************************************************************)
(* fetch_data (src/dashboard.py:19-36)                                     *)
(***************************************************************************)
\* final status codes requests.get can hand back; a 3xx is final when the
\* answer names no Location to follow
Statuses == {200, 300, 404, 500}

\* what the body is: a JSON array of objects, or anything else
Bodies == {"records", "malformed"}

\* raise_for_status with a fault: only server errors raise
raise_for_status_5xx(status) == status >= 500 /\ status < 600

\* Response.raise_for_status: HTTPError for 4xx and 5xx (line 32)
raise_for_status(status) == status >= 400 /\ status < 600

\* pd.DataFrame(): no columns, no rows (line 36)
EmptyFrame == [cols |-> FALSE, rows |-> <<>>]

\* pd.DataFrame.from_dict of a JSON array of objects: the columns are the keys
\* of the objects, so an empty array gives a frame without columns (line 33)
from_dict(rows) == [cols |-> rows # <<>>, rows |-> rows]

NoResponse == [kind |-> "none", status |-> 0, body |-> "none"]


(***************************************************************************)
(* pd.to_datetime(..., format="%d/%m/%Y") (src/dashboard.py:77)            *)
(***************************************************************************)
IsDigit(c) == \E i \in 1..10 : DigitChars[i] = c
DigitVal(c) == (CHOOSE i \in 1..10 : DigitChars[i] = c) - 1

IsLeap(y) == (y % 4 = 0 /\ y % 100 # 0) \/ y % 400 = 0
DaysIn(y, m) == IF m = 2 THEN (IF IsLeap(y) THEN 29 ELSE 28)
                ELSE IF m \in {4, 6, 9, 11} THEN 30 ELSE 31

\* the fields of a "dd/mm/yyyy" text, read digit by digit
DayField(t) == 10 * DigitVal(t[1]) + DigitVal(t[2])
MonthField(t) == 10 * DigitVal(t[4]) + DigitVal(t[5])
YearField(t) == 1000 * DigitVal(t[7]) + 100 * DigitVal(t[8])
                + 10 * DigitVal(t[9]) + DigitVal(t[10])

\* whether strptime accepts the text
Parseable(t) ==
    /\ Len(t) = 10
    /\ t[3] = "/" /\ t[6] = "/"
    /\ \A i \in {1, 2, 4, 5, 7, 8, 9, 10} : IsDigit(t[i])
    /\ MonthField(t) \in 1..12
    /\ DayField(t) \in 1..DaysIn(YearField(t), MonthField(t))

\* the Timestamp of a parseable text: <<year, month, day>>
Timestamp(t) == <<YearField(t), MonthField(t), DayField(t)>>

\* the column "Data da Compra" converted, row by row
to_datetime(rows) ==
    [i \in 1..Len(rows) |->
        [rows[i] EXCEPT !.Data_da_Compra = Timestamp(rows[i].Data_da_Compra)]]

(***************************************************************************)
(* The seller filter (src/dashboard.py:79-83)                              *)
(***************************************************************************)
\* Series.unique(): the values of a column
Unique(rows, col) == {rows[i][col] : i \in 1..Len(rows)}

\* datas[mask]: the rows whose mask entry is true, in their order
RECURSIVE BoolIndex(_, _)
BoolIndex(rows, mask) ==
    IF rows = <<>> THEN <<>>
    ELSE (IF Head(mask) THEN <<Head(rows)>> ELSE <<>>)
         \o BoolIndex(Tail(rows), Tail(mask))

\* Series.isin(values)
Isin(rows, col, values) == [i \in 1..Len(rows) |-> rows[i][col] \in values]

\* FilterBySeller with a fault: the mask is applied without the `if`
FilterBySeller_noguard(frame, sel) ==
    [frame EXCEPT !.rows = BoolIndex(frame.rows, Isin(frame.rows, "Vendedor", sel))]

\* lines 82-83
FilterBySeller(frame, sel) ==
    IF sel # {}
    THEN [frame EXCEPT !.rows = BoolIndex(frame.rows, Isin(frame.rows, "Vendedor", sel))]
    ELSE frame

(***************************************************************************)
(* The rollups (src/dashboard.py:85-130)                                   *)
(***************************************************************************)
\* Series.sum() of the column "Preco"
RECURSIVE SumPreco(_)
SumPreco(rows) == IF rows = <<>> THEN 0
                  ELSE Head(rows).Preco + SumPreco(Tail(rows))

\* the rows of one group
RECURSIVE RowsOf(_, _, _)
RowsOf(rows, col, key) ==
    IF rows = <<>> THEN <<>>
    ELSE (IF Head(rows)[col] = key THEN <<Head(rows)>> ELSE <<>>)
         \o RowsOf(Tail(rows), col, key)

\* the order of str comparison on the names the model uses
Alphabetical == <<"Ana", "Bia", "Caio", "RJ", "SP", "books", "toys">>

RECURSIVE KeepIn(_, _)
KeepIn(seq, S) ==
    IF seq = <<>> THEN <<>>
    ELSE (IF Head(seq) \in S THEN <<Head(seq)>> ELSE <<>>) \o KeepIn(Tail(seq), S)

\* groupby(col) with its default sort=True: one group per key, keys ascending
GroupKeys(rows, col) == KeepIn(Alphabetical, Unique(rows, col))

\* GroupBy with a fault: the two aggregates change places
GroupBy_swapped(rows, col) ==
    LET keys == GroupKeys(rows, col)
    IN  [i \in 1..Len(keys) |->
            [key |-> keys[i],
             sum |-> Len(RowsOf(rows, col, keys[i])),
             count |-> SumPreco(RowsOf(rows, col, keys[i]))]]

\* groupby(col)["Preco"].agg(["sum", "count"])
GroupBy(rows, col) ==
    LET keys == GroupKeys(rows, col)
    IN  [i \in 1..Len(keys) |->
            [key |-> keys[i],
             sum |-> SumPreco(RowsOf(rows, col, keys[i])),
             count |-> Len(RowsOf(rows, col, keys[i]))]]

\* SortValuesDesc with a fault: ascending
SortValuesDesc_asc(rows, col) ==
    {[i \in 1..Len(rows) |-> rows[f[i]]] : f \in
        {g \in Permutations(1..Len(rows)) :
            \A i, j \in 1..Len(rows) : i < j => rows[g[i]][col] <= rows[g[j]][col]}}

\* sort_values(col, ascending=False) with its default kind="quicksort", which
\* is not stable: every descending order of the rows is a possible result
SortValuesDesc(rows, col) ==
    {[i \in 1..Len(rows) |-> rows[f[i]]] : f \in
        {g \in Permutations(1..Len(rows)) :
            \A i, j \in 1..Len(rows) : i < j => rows[g[i]][col] >= rows[g[j]][col]}}

\* DataFrame.head(n)
Head_n(rows, n) == SubSeq(rows, 1, IF n < Len(rows) THEN n ELSE Len(rows))

\* months counted from year 0
MonthIndex(ts) == ts[1] * 12 + (ts[2] - 1)

MonthNames == <<"January", "February", "March", "April", "May", "June", "July",
                "August", "September", "October", "November", "December">>

\* MonthSpan with a fault: the bins run from the first row's month to the
\* last row's
MonthSpan_rows(rows) ==
    LET a == MonthIndex(rows[1].Data_da_Compra)
        b == MonthIndex(rows[Len(rows)].Data_da_Compra)
    IN  IF a <= b THEN <<a, b>> ELSE <<a, a>>

\* pd.Grouper(freq="M"): the bins run from the earliest month to the latest
MonthSpan(rows) ==
    LET idx == {MonthIndex(rows[i].Data_da_Compra) : i \in 1..Len(rows)}
    IN  <<CHOOSE a \in idx : \A b \in idx : a <= b,
          CHOOSE a \in idx : \A b \in idx : a >= b>>

RECURSIVE RowsInMonth(_, _)
RowsInMonth(rows, k) ==
    IF rows = <<>> THEN <<>>
    ELSE (IF MonthIndex(Head(rows).Data_da_Compra) = k THEN <<Head(rows)>> ELSE <<>>)
         \o RowsInMonth(Tail(rows), k)

\* set_index("Data da Compra").groupby(pd.Grouper(freq="M"))["Preco"]: one bin
\* per calendar month of the span, labelled by the month's last day, with the
\* sum and the count of its rows (0 for a month without rows); then the
\* columns "Ano" and "Mes" (lines 85-92, 119-123)
MonthlyGroup(rows) ==
    IF rows = <<>> THEN <<>>
    ELSE LET span == MonthSpan(rows)
         IN  [i \in 1..(span[2] - span[1] + 1) |->
                LET k == span[1] + i - 1
                    y == k \div 12
                    m == (k % 12) + 1
                IN  [Data_da_Compra |-> <<y, m, DaysIn(y, m)>>,
                     sum |-> SumPreco(RowsInMonth(rows, k)),
                     count |-> Len(RowsInMonth(rows, k)),
                     Ano |-> y,
                     Mes |-> MonthNames[m]]]

\* drop_duplicates with a fault: keep="last"
RECURSIVE drop_duplicates_last(_, _)
drop_duplicates_last(rows, col) ==
    IF rows = <<>> THEN <<>>
    ELSE LET n == Len(rows)
             init == SubSeq(rows, 1, n - 1)
         IN  (IF \E i \in 1..(n - 1) : rows[i][col] = rows[n][col]
              THEN drop_duplicates_last(
                     BoolIndex(init, [i \in 1..(n - 1) |-> rows[i][col] # rows[n][col]]),
                     col)
              ELSE drop_duplicates_last(init, col))
             \o <<rows[n]>>

\* drop_duplicates(subset=col): the first row of every value, in row order
RECURSIVE drop_duplicates(_, _)
drop_duplicates(rows, col) ==
    IF rows = <<>> THEN <<>>
    ELSE <<Head(rows)>> \o
         drop_duplicates(
            BoolIndex(Tail(rows),
                      [i \in 1..(Len(rows) - 1) |-> rows[i + 1][col] # Head(rows)[col]]),
            col)

\* lines 104-107 and 112-115 before the sort: the first row's name and
\* coordinates of every location, merged with the location's sum and count
StatesMerged(rows) ==
    LET firsts == drop_duplicates(rows, "Local_da_compra")
    IN  [i \in 1..Len(firsts) |->
            [Local_da_compra |-> firsts[i].Local_da_compra,
             lat |-> firsts[i].lat,
             lon |-> firsts[i].lon,
             sum |-> SumPreco(RowsOf(rows, "Local_da_compra", firsts[i].Local_da_compra)),
             count |-> Len(RowsOf(rows, "Local_da_compra", firsts[i].Local_da_compra))]]


\* lines 94-98 before the sort (what = "sum") and 125-127 (what = "count")
ByCategory(rows, what) ==
    LET g == GroupBy(rows, "Categoria_do_Produto")
    IN  [i \in 1..Len(g) |-> [Categoria_do_Produto |-> g[i].key, Preco |-> g[i][what]]]

\* lines 104-108 before the sort (what = "sum") and 112-116 (what = "count")
ByState(rows, what) ==
    LET m == StatesMerged(rows)
    IN  [i \in 1..Len(m) |->
            [Local_da_compra |-> m[i].Local_da_compra, lat |-> m[i].lat,
             lon |-> m[i].lon, Preco |-> m[i][what]]]

\* lines 85-92 (what = "sum") and 119-123 (what = "count")
ByMonth(rows, what) ==
    LET m == MonthlyGroup(rows)
    IN  [i \in 1..Len(m) |->
            [Data_da_Compra |-> m[i].Data_da_Compra, Preco |-> m[i][what],
             Ano |-> m[i].Ano, Mes |-> m[i].Mes]]

\* line 130
BySeller(rows) ==
    LET g == GroupBy(rows, "Vendedor")
    IN  [i \in 1..Len(g) |->
            [Vendedor |-> g[i].key, sum |-> g[i].sum, count |-> g[i].count]]

\* lines 244-246 (col = "sum") and 259-261 (col = "count"): the candidates
TopSellers(seller_rows, col, n) ==
    {Head_n(o, n) : o \in SortValuesDesc(seller_rows, col)}

QtdMin == 2
QtdMax == 10

(***************************************************************************)
(* The data the endpoint may hold                                          *)
(***************************************************************************)
Jan15 == <<"1", "5", "/", "0", "1", "/", "2", "0", "2", "0">>
Jan31 == <<"3", "1", "/", "0", "1", "/", "2", "0", "2", "0">>
Mar03 == <<"0", "3", "/", "0", "3", "/", "2", "0", "2", "0">>
Dec09 == <<"0", "9", "/", "1", "2", "/", "2", "0", "1", "9">>
\* no month 13: to_datetime refuses it
Bad13 == <<"3", "1", "/", "1", "3", "/", "2", "0", "2", "0">>

Prices == {400, 700}

Row(d, p, c, v, l, la, lo) ==
    [Data_da_Compra |-> d, Preco |-> p, Categoria_do_Produto |-> c,
     Vendedor |-> v, Local_da_compra |-> l, lat |-> la, lon |-> lo]

MaxRowsFetch == 2
MaxRowsSeller == 3
MaxRowsState == 3
MaxRowsMonth == 3
MaxRowsMixed == 2
MaxPasses == 2

Tables(R, n) == UNION {[1..k -> R] : k \in 0..n}

\* rows for the whole script: two sound ones and one with an unparseable date
FetchRows == {Row(Jan15, 400, "books", "Ana", "SP", -23, -46),
              Row(Mar03, 700, "toys", "Bia", "RJ", -22, -43),
              Row(Bad13, 400, "books", "Ana", "SP", -23, -46)}

\* rows that differ in seller and price
SellerRows == {Row(Jan15, p, "books", v, "SP", -23, -46) :
                 p \in Prices, v \in {"Ana", "Bia", "Caio"}}

\* rows that differ in location, coordinates and price
StateRows == {Row(Jan15, p, "books", "Ana", l, la, -46) :
                 p \in Prices, l \in {"RJ", "SP"}, la \in {-23, -22}}

\* rows that differ in date and price
MonthRows == {Row(d, p, "books", "Ana", "SP", -23, -46) :
                 d \in {Dec09, Jan15, Jan31, Mar03}, p \in Prices}

\* rows that differ in every grouping key
MixedRows == {Row(d, p, c, v, IF p = 400 THEN "RJ" ELSE "SP", -23, -46) :
                 d \in {Jan15, Mar03}, p \in Prices, c \in {"books", "toys"},
                 v \in {"Ana", "Bia"}}


(***************************************************************************)
(* The script, statement by statement                                      *)
(***************************************************************************)
RangeOf(seq) == {seq[i] : i \in 1..Len(seq)}

RS == <<"R", "$">>

\* what a run starts from: nothing fetched, nothing computed
RunReset ==
    /\ selected = Brasil /\ every_year = TRUE /\ slider = 0
    /\ query_string = QueryString(<<>>, TRUE, 0)
    /\ response = NoResponse /\ reported = 0 /\ raised = "none"
    /\ datas = EmptyFrame /\ fetched = EmptyFrame /\ seller_filter = {}

NoRollups ==
    /\ monthly_income = <<>> /\ income_by_category = <<>>
    /\ income_of_the_states = <<>> /\ vendas_estados = <<>>
    /\ vendas_mensal = <<>> /\ vendas_categorias = <<>> /\ vendedores = <<>>

NoRender ==
    /\ qtd_vendedores = 0 /\ receita_vendedores = <<>> /\ vendas_vendedores = <<>>
    /\ metric_income = <<>> /\ metric_sales = <<>>

FormatIdle == fpc = "idle" /\ value = 0 /\ prefix = <<>> /\ out = <<>>

\* lines 61-74: the sidebar widgets are read and the query is built
Sidebar ==
    /\ pc = "sidebar"
    /\ \E sel \in RangeOf(REGIONS), every \in BOOLEAN, sl \in SliderMin..SliderMax :
          /\ selected' = sel
          /\ every_year' = every
          /\ slider' = (IF every THEN 0 ELSE sl)
          /\ query_string' = QueryString(RegionOf(sel), every, YearOf(every, sl))
    /\ pc' = "fetch"
    /\ UNCHANGED <<fvars, passes, remote, qvars, raised, datas, fetched,
                   seller_filter, avars, rvars>>

\* fetch_data, lines 30-36, against one answer of the network.
\* resp.kind = "error": requests.get raised a RequestException.
\* json_is_request_exception: whether the JSONDecodeError of Response.json()
\* is a RequestException (requests >= 2.27) or a plain ValueError, which is
\* also what DataFrame.from_dict raises on a body it cannot tabulate.
\* The result: the frame returned (or none), the exception that escaped,
\* the st.error calls and the requests.get calls made.
fetch_data(resp, rows, json_is_request_exception) ==
    IF resp.kind = "error" \/ raise_for_status(resp.status)
    THEN [frame |-> EmptyFrame, raised |-> "none", reported |-> 1, gets |-> 1]
    ELSE IF resp.body = "records"
    THEN [frame |-> from_dict(rows), raised |-> "none", reported |-> 0, gets |-> 1]
    ELSE IF json_is_request_exception
    THEN [frame |-> EmptyFrame, raised |-> "none", reported |-> 1, gets |-> 1]
    ELSE [frame |-> EmptyFrame, raised |-> "fetch_data: ValueError",
          reported |-> 0, gets |-> 1]

Responses ==
    {[kind |-> "error", status |-> 0, body |-> "none"]}
    \cup {[kind |-> "http", status |-> st, body |-> b] : st \in Statuses, b \in Bodies}

\* line 76
FetchData ==
    /\ pc = "fetch"
    /\ \E resp \in Responses, jre \in BOOLEAN :
          LET r == fetch_data(resp, remote, jre)
          IN  /\ response' = resp
              /\ invocations' = invocations + 1
              /\ requests_made' = requests_made + r.gets
              /\ reported' = reported + r.reported
              /\ raised' = r.raised
              /\ datas' = r.frame
              /\ fetched' = r.frame
              /\ pc' = (IF r.raised = "none" THEN "todatetime" ELSE "raised")
    /\ UNCHANGED <<fvars, passes, remote, svars, seller_filter, avars, rvars>>

\* line 77: datas["Data da Compra"] needs the column, to_datetime needs every
\* text to parse
ToDatetime ==
    /\ pc = "todatetime"
    /\ IF ~datas.cols
       THEN /\ raised' = "line 77: KeyError" /\ pc' = "raised"
            /\ UNCHANGED <<datas, fetched>>
       ELSE IF \E i \in 1..Len(datas.rows) : ~Parseable(datas.rows[i].Data_da_Compra)
       THEN /\ raised' = "line 77: ValueError" /\ pc' = "raised"
            /\ UNCHANGED <<datas, fetched>>
       ELSE /\ datas' = [datas EXCEPT !.rows = to_datetime(datas.rows)]
            /\ fetched' = datas'
            /\ pc' = "filter"
            /\ UNCHANGED raised
    /\ UNCHANGED <<fvars, passes, remote, svars, qvars, seller_filter, avars, rvars>>

\* lines 79-83: the multiselect offers the sellers of the table
SellerFilter ==
    /\ pc = "filter"
    /\ \E sel \in SUBSET Unique(datas.rows, "Vendedor") :
          /\ seller_filter' = sel
          /\ datas' = FilterBySeller(datas, sel)
    /\ pc' = "aggregate"
    /\ UNCHANGED <<fvars, passes, remote, svars, qvars, raised, fetched, avars, rvars>>

\* lines 85-130
Aggregate ==
    /\ pc = "aggregate"
    /\ monthly_income' = ByMonth(datas.rows, "sum")
    /\ income_by_category' \in SortValuesDesc(ByCategory(datas.rows, "sum"), "Preco")
    /\ income_of_the_states' \in SortValuesDesc(ByState(datas.rows, "sum"), "Preco")
    /\ vendas_estados' \in SortValuesDesc(ByState(datas.rows, "count"), "Preco")
    /\ vendas_mensal' = ByMonth(datas.rows, "count")
    /\ vendas_categorias' \in SortValuesDesc(ByCategory(datas.rows, "count"), "Preco")
    /\ vendedores' = BySeller(datas.rows)
    /\ pc' = "render"
    /\ UNCHANGED <<fvars, passes, remote, svars, qvars, raised, datas, fetched,
                   seller_filter, rvars>>

\* lines 215-270: the metrics and the two seller charts
Render ==
    /\ pc = "render"
    /\ \E n \in QtdMin..QtdMax, tie1, tie2 \in {"down", "up"} :
          /\ qtd_vendedores' = n
          /\ metric_income' = format_number(SumPreco(datas.rows), RS, tie1)
          /\ metric_sales' = format_number(Len(datas.rows), <<>>, tie2)
          /\ receita_vendedores' \in TopSellers(vendedores, "sum", n)
          /\ vendas_vendedores' \in TopSellers(vendedores, "count", n)
    /\ pc' = "done"
    /\ UNCHANGED <<fvars, passes, remote, svars, qvars, raised, datas, fetched,
                   seller_filter, avars>>

\* a user interaction: Streamlit runs the script again from its first line
Rerun ==
    /\ pc \in {"done", "raised"}
    /\ passes < MaxPasses
    /\ passes' = passes + 1
    /\ pc' = "sidebar"
    /\ selected' = Brasil /\ every_year' = TRUE /\ slider' = 0
    /\ query_string' = QueryString(<<>>, TRUE, 0)
    /\ response' = NoResponse /\ reported' = 0 /\ raised' = "none"
    /\ datas' = EmptyFrame /\ fetched' = EmptyFrame /\ seller_filter' = {}
    /\ monthly_income' = <<>> /\ income_by_category' = <<>>
    /\ income_of_the_states' = <<>> /\ vendas_estados' = <<>>
    /\ vendas_mensal' = <<>> /\ vendas_categorias' = <<>> /\ vendedores' = <<>>
    /\ qtd_vendedores' = 0 /\ receita_vendedores' = <<>> /\ vendas_vendedores' = <<>>
    /\ metric_income' = <<>> /\ metric_sales' = <<>>
    /\ UNCHANGED <<fvars, remote, invocations, requests_made>>

Init ==
    /\ FormatIdle
    /\ pc = "sidebar" /\ passes = 1
    /\ remote \in Tables(FetchRows, MaxRowsFetch)
    /\ invocations = 0 /\ requests_made = 0
    /\ RunReset /\ NoRollups /\ NoRender

Next == Sidebar \/ FetchData \/ ToDatetime \/ SellerFilter \/ Aggregate
        \/ Render \/ Rerun

Spec == Init /\ [][Next]_vars

\* the script at line 77 of a run with the widgets at their defaults, the
\* endpoint having answered 200 with one of `tables`
InitRollups(tables) ==
    /\ FormatIdle
    /\ pc = "todatetime" /\ passes = 1
    /\ remote \in tables
    /\ selected = Brasil /\ every_year = TRUE /\ slider = 0
    /\ query_string = QueryString(<<>>, TRUE, 0)
    /\ invocations = 1 /\ requests_made = 1
    /\ response = [kind |-> "http", status |-> 200, body |-> "records"]
    /\ reported = 0 /\ raised = "none"
    /\ datas = from_dict(remote) /\ fetched = from_dict(remote)
    /\ seller_filter = {}
    /\ NoRollups /\ NoRender

NextRollups == ToDatetime \/ SellerFilter \/ Aggregate \/ Render

SpecSellers == InitRollups(Tables(SellerRows, MaxRowsSeller)) /\ [][NextRollups]_vars
SpecStates == InitRollups(Tables(StateRows, MaxRowsState)) /\ [][NextRollups]_vars
SpecMonths == InitRollups(Tables(MonthRows, MaxRowsMonth)) /\ [][NextRollups]_vars
SpecMixed == InitRollups(Tables(MixedRows, MaxRowsMixed)) /\ [][NextRollups]_vars

(***************************************************************************)
(* format_number called on its own                                         *)
(***************************************************************************)
Window == 12

\* the step of format_number's scale (lines 54 and 56) and its powers
Thousand == 1000
MillionValue == Thousand * Thousand
Billion == Thousand * MillionValue

Near(c) == {v \in (c - Window)..(c + Window) : v >= 0}

\* the values tried: around 0 and around every power of 1000, the values the
\* documentation names, and halves of a hundredth
Values == Near(0) \cup Near(Thousand) \cup Near(MillionValue) \cup Near(Billion)
          \cup {500, 1500, 2500000, 1125, 999999, 999994, 1995000, 2000000000}

Prefixes == {<<>>, RS}

FormatCall ==
    /\ fpc = "input"
    /\ \E tie \in {"down", "up"} : out' = format_number(value, prefix, tie)
    /\ fpc' = "formatted"
    /\ UNCHANGED <<value, prefix, pc, passes, remote, svars, qvars, raised, datas,
                   fetched, seller_filter, avars, rvars>>

InitFormat ==
    /\ fpc = "input" /\ value \in Values /\ prefix \in Prefixes /\ out = <<>>
    /\ pc = "idle" /\ passes = 0 /\ remote = <<>>
    /\ invocations = 0 /\ requests_made = 0
    /\ RunReset /\ NoRollups /\ NoRender

NextFormat == FormatCall

SpecFormat == InitFormat /\ [][NextFormat]_vars


(***************************************************************************)
(* Properties                                                              *)
(***************************************************************************)
\* reading a formatted text back: after the prefix and one space comes the
\* numeral, up to the next space, and after that space the unit
AfterPrefix(text, pre) == SubSeq(text, Len(pre) + 2, Len(text))

NumeralLen(text, pre) ==
    LET rest == AfterPrefix(text, pre)
    IN  (CHOOSE i \in 1..Len(rest) : rest[i] = " " /\ \A j \in 1..(i - 1) : rest[j] # " ") - 1

NumeralOf(text, pre) == SubSeq(AfterPrefix(text, pre), 1, NumeralLen(text, pre))

UnitOf(text, pre) ==
    SubSeq(AfterPrefix(text, pre), NumeralLen(text, pre) + 2, Len(AfterPrefix(text, pre)))

\* prefix, space, digits, point, exactly two digits, space, unit
WellFormed(text, pre) ==
    /\ Len(text) >= Len(pre) + 6
    /\ SubSeq(text, 1, Len(pre)) = pre
    /\ text[Len(pre) + 1] = " "
    /\ \E i \in 1..Len(AfterPrefix(text, pre)) : AfterPrefix(text, pre)[i] = " "
    /\ LET num == NumeralOf(text, pre)
           n == Len(num)
       IN  /\ n >= 4
           /\ num[n - 2] = "."
           /\ \A i \in (1..n) \ {n - 2} : IsDigit(num[i])
           /\ (n > 4 => num[1] # "0")

\* the numeral read as a number of hundredths
RECURSIVE DigitsValue(_)
DigitsValue(ds) == IF ds = <<>> THEN 0
                   ELSE 10 * DigitsValue(SubSeq(ds, 1, Len(ds) - 1)) + DigitVal(ds[Len(ds)])

HundredthsOf(num) ==
    DigitsValue(SubSeq(num, 1, Len(num) - 3) \o SubSeq(num, Len(num) - 1, Len(num)))

\* h hundredths is v / d rounded to the nearest hundredth, d a multiple of 100
NearestHundredth(h, v, d) ==
    LET q == v \div (d \div 100)
        r == v % (d \div 100)
    IN  \/ h = q /\ 2 * r <= d \div 100
        \/ h = q + 1 /\ 2 * r >= d \div 100

ThousandText == <<"t", "h", "o", "u", "s", "a", "n", "d">>

\* C1: format_number(v, p) is p, a space, the scaled value with exactly two
\* decimals, a space and a unit; below 1000 the scaled value is v and the unit
\* is empty, from 1000 up to (not including) 1,000,000 the scaled value is
\* v/1000 and the unit is "thousand"; format_number(500) is " 500.00 ",
\* format_number(1500) is " 1.50 thousand", format_number(1500, "R$") is
\* "R$ 1.50 thousand".
C1_SmallAndThousand ==
    fpc = "formatted" /\ value < MillionValue =>
        /\ WellFormed(out, prefix)
        /\ value < Thousand =>
              /\ HundredthsOf(NumeralOf(out, prefix)) = 100 * value
              /\ UnitOf(out, prefix) = <<>>
        /\ value >= Thousand =>
              /\ NearestHundredth(HundredthsOf(NumeralOf(out, prefix)), value, Thousand)
              /\ UnitOf(out, prefix) = ThousandText
        /\ (value = 500 /\ prefix = <<>>) =>
              out = <<" ", "5", "0", "0", ".", "0", "0", " ">>
        /\ (value = 1500 /\ prefix = <<>>) =>
              out = <<" ", "1", ".", "5", "0", " ">> \o ThousandText
        /\ (value = 1500 /\ prefix = RS) =>
              out = <<"R", "$", " ", "1", ".", "5", "0", " ">> \o ThousandText

\* C2: for every value of 1,000,000 or more, however large, the text is the
\* prefix, a space, value/1,000,000 with two decimals, a space and "million";
\* from 10^9 on the numeral is 1000.00 or more and the unit is still "million".
C2_MillionAndBeyond ==
    fpc = "formatted" /\ value >= MillionValue =>
        /\ WellFormed(out, prefix)
        /\ UnitOf(out, prefix) = Million
        /\ NearestHundredth(HundredthsOf(NumeralOf(out, prefix)), value, MillionValue)
        /\ value >= Billion => HundredthsOf(NumeralOf(out, prefix)) >= 100000
        /\ (value = 2500000 /\ prefix = <<>>) =>
              out = <<" ", "2", ".", "5", "0", " ">> \o Million

C2_Witness ==
    /\ fpc = "formatted" /\ value = 2000000000 /\ prefix = RS
    /\ out = <<"R", "$", " ", "2", "0", "0", "0", ".", "0", "0", " ">> \o Million


\* fetch_data has just come back to line 76, or an exception left it
FetchReturned == pc = "todatetime"
FetchRaised == pc = "raised" /\ raised = "fetch_data: ValueError"
FetchOver == FetchReturned \/ FetchRaised

\* C3 as stated: every invocation of fetch_data makes exactly one request
\* attempt and never raises to its caller; on a 2xx response it returns the
\* parsed records, and on any network error or non-2xx response it reports
\* the error and returns an empty table with zero records.
C3_NeverRaisesNon2xxEmpty ==
    /\ requests_made = invocations
    /\ ~FetchRaised
    /\ FetchOver =>
          /\ (response.kind = "http" /\ response.status \in 200..299
                /\ response.body = "records") =>
                   datas.rows = remote /\ reported = 0
          /\ (response.kind = "error" \/ response.status \notin 200..299) =>
                   datas = EmptyFrame /\ Len(datas.rows) = 0 /\ reported = 1

\* C3 as amended: every invocation of fetch_data makes exactly one request
\* attempt; on a network error or a 4xx/5xx response it returns, without
\* raising, an empty table with zero records after reporting the error once;
\* on any other response whose body is a JSON array of records it returns
\* those records and reports nothing.
C3_OneAttemptFailSoft ==
    /\ requests_made = invocations
    /\ (pc \notin {"idle", "sidebar", "fetch"}
          /\ (response.kind = "error" \/ response.status \in 400..599)) => ~FetchRaised
    /\ (pc \notin {"idle", "sidebar", "fetch"}
          /\ response.kind = "http" /\ response.status < 400
          /\ response.body = "records") => ~FetchRaised
    /\ FetchReturned =>
          /\ (response.kind = "error" \/ response.status \in 400..599) =>
                   datas = EmptyFrame /\ Len(datas.rows) = 0 /\ reported = 1
          /\ (response.kind = "http" /\ response.status < 400
                /\ response.body = "records") =>
                   datas.rows = remote /\ reported = 0

C3_Witness ==
    /\ FetchReturned /\ passes = 2 /\ invocations = 2 /\ requests_made = 2
    /\ response.kind = "http" /\ response.status = 404 /\ response.body = "records"
    /\ remote # <<>> /\ datas = EmptyFrame /\ reported = 1

FetchFailed ==
    /\ pc \notin {"idle", "sidebar", "fetch"}
    /\ (response.kind = "error" \/ raise_for_status(response.status))

Zero00 == <<" ", "0", ".", "0", "0", " ">>

\* C4: when the fetch fails and fetch_data returns an empty table, the rest
\* of the run completes without raising: every rollup (monthly, geographic,
\* category, seller) is empty and both metrics read " 0.00 " after the prefix.
C4_EmptyTableRenders ==
    FetchFailed =>
        /\ pc # "raised" /\ raised = "none"
        /\ pc = "done" =>
              /\ monthly_income = <<>> /\ income_of_the_states = <<>>
              /\ income_by_category = <<>> /\ vendedores = <<>>
              /\ metric_income = RS \o Zero00
              /\ metric_sales = Zero00

Filtered == pc \in {"aggregate", "render", "done"}

\* C5: the seller filter returns exactly the records whose seller is in the
\* selection, in their original order, when the selection is not empty, and
\* the table unchanged (same records, same count, same order) when it is.
C5_SellerFilter ==
    Filtered =>
        LET Chosen(r) == r.Vendedor \in seller_filter
        IN  /\ seller_filter # {} => datas.rows = SelectSeq(fetched.rows, Chosen)
            /\ seller_filter = {} =>
                  /\ datas = fetched
                  /\ Len(datas.rows) = Len(fetched.rows)
                  /\ \A i \in 1..Len(fetched.rows) : datas.rows[i] = fetched.rows[i]
            /\ datas.cols = fetched.cols

C5_Witness ==
    /\ pc = "aggregate" /\ seller_filter = {"Ana", "Caio"}
    /\ Len(fetched.rows) = 3 /\ Len(datas.rows) = 2
    /\ fetched.rows[2].Vendedor = "Bia"
    /\ datas.rows[1].Vendedor = "Caio" /\ datas.rows[2].Vendedor = "Ana"

\* the sum of one column of a sequence of rows
RECURSIVE ColumnTotal(_, _)
ColumnTotal(rows, col) ==
    IF rows = <<>> THEN 0
    ELSE rows[Len(rows)][col] + ColumnTotal(SubSeq(rows, 1, Len(rows) - 1), col)

Rolled == pc \in {"render", "done"}

\* C6: for every (filtered) table the per-bucket sums of the monthly, the
\* geographic, the category and the seller rollup each add up to the sum of
\* price over the whole table.
C6_SumsPartition ==
    Rolled =>
        LET total == ColumnTotal(datas.rows, "Preco")
        IN  /\ ColumnTotal(monthly_income, "Preco") = total
            /\ ColumnTotal(income_of_the_states, "Preco") = total
            /\ ColumnTotal(income_by_category, "Preco") = total
            /\ ColumnTotal(vendedores, "sum") = total

C6_Witness ==
    /\ pc = "render" /\ seller_filter = {"Ana"} /\ Len(fetched.rows) = 2
    /\ Len(datas.rows) = 2
    /\ Len(monthly_income) = 3 /\ Len(income_of_the_states) = 2
    /\ Len(income_by_category) = 2 /\ Len(vendedores) = 1
    /\ ColumnTotal(datas.rows, "Preco") = 1100


Min2(a, b) == IF a < b THEN a ELSE b

\* the place of a seller in the seller rollup, which groupby keeps in
\* ascending order of the seller's name
PlaceOf(seller) == CHOOSE i \in 1..Len(vendedores) : vendedores[i].Vendedor = seller

\* the top-N rows are rows of the rollup, each seller once, largest sums
\* first, and nothing left out has a larger sum than something shown
TopBySum(top, n) ==
    /\ Len(top) = Min2(n, Len(vendedores))
    /\ \A i \in 1..Len(top) : \E k \in 1..Len(vendedores) :
          top[i] = [Vendedor |-> vendedores[k].Vendedor, sum |-> vendedores[k].sum,
                    count |-> vendedores[k].count]
    /\ \A i, j \in 1..Len(top) : i # j => top[i].Vendedor # top[j].Vendedor
    /\ \A i, j \in 1..Len(top) : i < j => top[i].sum >= top[j].sum
    /\ \A k \in 1..Len(vendedores) :
          (\A i \in 1..Len(top) : top[i].Vendedor # vendedores[k].Vendedor)
             => \A i \in 1..Len(top) : top[i].sum >= vendedores[k].sum

\* sellers with equal sums come in the order the rollup has them, also across
\* the cut
TiesInGroupingOrder(top) ==
    /\ \A i, j \in 1..Len(top) :
          (i < j /\ top[i].sum = top[j].sum)
             => PlaceOf(top[i].Vendedor) < PlaceOf(top[j].Vendedor)
    /\ \A k \in 1..Len(vendedores) :
          (\A i \in 1..Len(top) : top[i].Vendedor # vendedores[k].Vendedor)
             => \A i \in 1..Len(top) :
                   top[i].sum = vendedores[k].sum => PlaceOf(top[i].Vendedor) < k

\* C7 as stated: the top-N-by-sum view holds exactly min(N, number of
\* sellers) sellers, the ones with the largest sums in descending order of
\* sum, and sellers with equal sums appear in their original grouping order.
C7_TopNStable ==
    pc = "done" =>
        /\ TopBySum(receita_vendedores, qtd_vendedores)
        /\ TiesInGroupingOrder(receita_vendedores)

\* C7 as amended: the top-N-by-sum view holds exactly min(N, number of
\* sellers) sellers, the ones with the largest sums in descending order of
\* sum; the order among sellers with equal sums, and which of them is shown
\* when they tie at the cut, is not fixed.
C7_TopN ==
    pc = "done" => TopBySum(receita_vendedores, qtd_vendedores)

C7_Witness ==
    /\ pc = "done" /\ qtd_vendedores = 2 /\ Len(vendedores) = 3
    /\ Len(receita_vendedores) = 2
    /\ vendedores[1].sum = 400 /\ vendedores[2].sum = 700 /\ vendedores[3].sum = 400
    /\ receita_vendedores[1].Vendedor = "Bia" /\ receita_vendedores[2].Vendedor = "Caio"

\* the buckets of a monthly rollup with their sums
Buckets(monthly) == {<<monthly[i].Data_da_Compra, monthly[i].Preco>> : i \in 1..Len(monthly)}

\* C8: the monthly rollup does not depend on the order of the records: every
\* permutation of the table has the same month buckets with the same sums.
C8_MonthlyOrderFree ==
    pc = "render" =>
        \A f \in Permutations(1..Len(datas.rows)) :
            LET shuffled == [i \in 1..Len(datas.rows) |-> datas.rows[f[i]]]
            IN  /\ Buckets(ByMonth(shuffled, "sum")) = Buckets(monthly_income)
                /\ Len(ByMonth(shuffled, "sum")) = Len(monthly_income)

C8_Witness ==
    /\ pc = "render" /\ Len(datas.rows) = 3
    /\ datas.rows[1].Data_da_Compra = <<2020, 3, 3>>
    /\ datas.rows[2].Data_da_Compra = <<2019, 12, 9>>
    /\ datas.rows[3].Data_da_Compra = <<2020, 1, 31>>
    /\ Buckets(monthly_income) = {<<<<2019, 12, 31>>, 400>>, <<<<2020, 1, 31>>, 700>>,
                                  <<<<2020, 2, 29>>, 0>>, <<<<2020, 3, 31>>, 400>>}

\* what the request must carry for each region of the selectbox
ExpectedRegiao(sel) ==
    IF sel = Brasil THEN <<>>
    ELSE IF sel = CentroOeste
         THEN <<"c", "e", "n", "t", "r", "o", "-", "o", "e", "s", "t", "e">>
    ELSE IF sel = Nordeste THEN <<"n", "o", "r", "d", "e", "s", "t", "e">>
    ELSE IF sel = Norte THEN <<"n", "o", "r", "t", "e">>
    ELSE IF sel = Sudeste THEN <<"s", "u", "d", "e", "s", "t", "e">>
    ELSE <<"s", "u", "l">>

\* C9: for every combination of sidebar selections the request has regiao
\* empty when "Brasil" is selected and otherwise the selected region's name
\* in lower case, and has ano 0 exactly when "entire period" is checked and
\* otherwise the selected year, an integer in 2020..2023.
C9_QueryString ==
    pc \notin {"idle", "sidebar"} =>
        /\ query_string.regiao = ExpectedRegiao(selected)
        /\ query_string.ano = 0 <=> every_year
        /\ ~every_year => query_string.ano = slider /\ slider \in 2020..2023

C9_Witness ==
    /\ pc = "todatetime" /\ selected = CentroOeste /\ ~every_year /\ slider = 2023
    /\ query_string = [regiao |-> <<"c", "e", "n", "t", "r", "o", "-", "o", "e", "s", "t", "e">>,
                       ano |-> 2023]

\* the first record of a location, in table order
FirstAt(loc) ==
    CHOOSE i \in 1..Len(datas.rows) :
        /\ datas.rows[i].Local_da_compra = loc
        /\ \A j \in 1..(i - 1) : datas.rows[j].Local_da_compra # loc

\* C10: the geographic rollup has exactly one row per location of the table,
\* carrying the sum of price over the location's records and the
\* latitude/longitude of the location's first record in table order, and its
\* rows are ordered by sum, largest first.
C10_StatesRollup ==
    Rolled =>
        LET g == income_of_the_states
            locs == {datas.rows[i].Local_da_compra : i \in 1..Len(datas.rows)}
        IN  /\ Len(g) = Cardinality(locs)
            /\ {g[i].Local_da_compra : i \in 1..Len(g)} = locs
            /\ \A i \in 1..Len(g) :
                  LET Here(r) == r.Local_da_compra = g[i].Local_da_compra
                      first == datas.rows[FirstAt(g[i].Local_da_compra)]
                  IN  /\ g[i].Preco = ColumnTotal(SelectSeq(datas.rows, Here), "Preco")
                      /\ g[i].lat = first.lat /\ g[i].lon = first.lon
            /\ \A i, j \in 1..Len(g) : i < j => g[i].Preco >= g[j].Preco

C10_Witness ==
    /\ pc = "render" /\ Len(datas.rows) = 3
    /\ datas.rows[1].Local_da_compra = "SP" /\ datas.rows[1].lat = -23
    /\ datas.rows[2].Local_da_compra = "RJ"
    /\ datas.rows[3].Local_da_compra = "SP" /\ datas.rows[3].lat = -22
    /\ Len(income_of_the_states) = 2
    /\ income_of_the_states[1] =
          [Local_da_compra |-> "SP", lat |-> -23, lon |-> -46, Preco |-> 800]
    /\ income_of_the_states[2].Preco = 700

=============================================================================
